---- MODULE Spec2Model ----
(***************************************************************************)
(* State-machine model of bin/uiuc_training_load.py (class Router):        *)
(* Setup, Run, Read_Cache, Retrieve_Source, Warehouse_Info,                 *)
(* Warehouse_Entry, smart_sleep and exit_signal.                            *)
(*                                                                         *)
(* Strings are sequences of one-character strings, so that str.find and     *)
(* slicing are computed as Python computes them.  Times are integer         *)
(* seconds since an epoch at 00:00:00 UTC.                                  *)
(***************************************************************************)
EXTENDS Integers, Sequences, FiniteSets, TLC

VARIABLES
    pc,           \* position of the single thread of control
    args,         \* argparse namespace: src, dest, daemonaction
    config,       \* loaded configuration: DESTINATION, CIDER_LAST_URL
    src,          \* self.src  (scheme, path, uri)
    dest,         \* self.dest (scheme, path, uri)
    rc,           \* process exit code, meaningful once pc = "Exit"
    raised,       \* name of the exception that ended the run, "none" if none
    raisedIn,     \* function the exception was raised in, "none" if none
    now,          \* last value read from the wall clock
    start,        \* self.start
    end,          \* self.end
    last_run,     \* parameter of smart_sleep
    STATS,        \* self.STATS counter
    has_entry_batch, \* hasattr(self, 'entry_batch')
    entry_batch,  \* self.entry_batch (empty while the attribute does not exist)
    RAW,          \* the document of the current cycle
    pos,          \* index of the next parent record in Warehouse_Info
    sinkLog,      \* calls made to the sink during the current cycle / harness run
    cycles,       \* number of cycles started by Run
    summaries,    \* number of summary lines logged by Run
    cycleSummaries, \* number of summary lines logged in the current cycle
    sigSeen,      \* a SIGINT or SIGTERM has been delivered to the handler
    hB,           \* harness: batch size under test
    hN,           \* harness: number of entries to submit
    hSub,         \* harness: number of entries submitted so far
    hCalls,       \* harness: number of Warehouse_Entry calls made
    hLast,        \* harness: description of the last Warehouse_Entry call
    hArrived      \* harness: entries submitted in batched mode, in arrival order

vars == <<pc, args, config, src, dest, rc, raised, raisedIn, now, start, end, last_run,
          STATS, has_entry_batch, entry_batch, RAW, pos, sinkLog, cycles, summaries, cycleSummaries,
          sigSeen,
          hB, hN, hSub, hCalls, hLast, hArrived>>

NoneStr == <<"<None>">>     \* Python None in a string-valued field (no string has such an element)

----------------------------------------------------------------------------
(* Strings *)

S_file == <<"f","i","l","e">>
S_http == <<"h","t","t","p">>
S_https == <<"h","t","t","p","s">>
S_analyze == <<"a","n","a","l","y","z","e">>
S_index == <<"i","n","d","e","x">>
S_warehouse == <<"w","a","r","e","h","o","u","s","e">>
S_ftp == <<"f","t","p">>
Colon == <<":">>
Slash == <<"/">>

\* str.find(':'): 0-based index of the first ':' or -1
Find(s, c) ==
    IF \E i \in 1..Len(s) : s[i] = c
    THEN (CHOOSE i \in 1..Len(s) : s[i] = c /\ \A j \in 1..(i-1) : s[j] # c) - 1
    ELSE -1

\* Python slices s[a:b] and s[a:] for 0 <= a
Slice(s, a, b) == SubSeq(s, a + 1, IF b < Len(s) THEN b ELSE Len(s))
SliceFrom(s, a) == SubSeq(s, a + 1, Len(s))

\* truthiness of an optional string: None and '' are falsy
Truthy(s) == s # NoneStr /\ s # <<>>

default_file == S_file \o Colon \o <<".","/","u">>

SrcSchemes == {S_file, S_http, S_https}
DestSchemes == {S_file, S_analyze, S_index}
DaemonDestSchemes == {S_warehouse}

----------------------------------------------------------------------------
(* Setup, lines 117-165 *)

\* lines 120-124: split on the first ':' when it is not the first character
SplitScheme(s) ==
    LET idx == Find(s, ":") IN
    IF idx > 0 THEN [scheme |-> Slice(s, 0, idx), path |-> SliceFrom(s, idx + 1)]
    ELSE [scheme |-> s, path |-> NoneStr]

\* lines 118-119
SrcArg(a) == IF Truthy(a.src) THEN a.src ELSE default_file

\* lines 136-140
DestArg(a, c) ==
    LET d1 == IF ~Truthy(a.dest) /\ c.DESTINATION # NoneStr THEN c.DESTINATION ELSE a.dest
    IN IF Truthy(d1) THEN d1 ELSE S_index

\* lines 162-165: the daemon check
DaemonRefused(a, sscheme, dscheme) ==
    a.daemonaction = "start"
        /\ (sscheme \notin {S_http, S_https} \/ dscheme \notin DaemonDestSchemes)

\* the same-scheme test compares the destination with the wrong scheme
BothFile_WrongScheme(sscheme, dscheme) == sscheme \in {S_file} /\ dscheme \in {S_index}

\* lines 155-157
BothFile(sscheme, dscheme) == sscheme \in {S_file} /\ dscheme \in {S_file}

\* The outcome of Setup: the fields it leaves and how it ends.
\* end = "ok" | "exit" (sys.exit(1)) | "TypeError" (None[0:2] at line 129)
SetupResult(a, c) ==
    LET sarg == SrcArg(a)
        sp == SplitScheme(sarg)
        darg == DestArg(a, c)
        dp == SplitScheme(darg)
        none == [scheme |-> NoneStr, path |-> NoneStr, uri |-> NoneStr]
        a1 == [a EXCEPT !.src = sarg]
        a2 == [a1 EXCEPT !.dest = darg]
        s1 == [scheme |-> sp.scheme, path |-> sp.path, uri |-> NoneStr]
        isHttp == sp.scheme \in {S_http, S_https}
        s2 == [scheme |-> sp.scheme,
               path |-> IF isHttp THEN SliceFrom(sp.path, 2) ELSE sp.path,
               uri |-> sarg]
        d1 == [scheme |-> dp.scheme, path |-> dp.path, uri |-> NoneStr]
        d2 == [d1 EXCEPT !.uri = darg]
    IN  IF sp.scheme \notin SrcSchemes
            THEN [end |-> "exit", args |-> a1, src |-> s1, dest |-> none]
        ELSE IF isHttp /\ sp.path = NoneStr
            THEN [end |-> "TypeError", args |-> a1, src |-> s1, dest |-> none]
        ELSE IF isHttp /\ Slice(sp.path, 0, 2) # <<"/","/">>
            THEN [end |-> "exit", args |-> a1, src |-> s1, dest |-> none]
        ELSE IF dp.scheme \notin DestSchemes
            THEN [end |-> "exit", args |-> a2, src |-> s2, dest |-> d1]
        ELSE IF BothFile(sp.scheme, dp.scheme)
            THEN [end |-> "exit", args |-> a2, src |-> s2, dest |-> d2]
        ELSE IF DaemonRefused(a, sp.scheme, dp.scheme)
            THEN [end |-> "exit", args |-> a2, src |-> s2, dest |-> d2]
        ELSE [end |-> "ok", args |-> a2, src |-> s2, dest |-> d2]

----------------------------------------------------------------------------
(* Bounds of the model *)

MaxRecords == 2      \* parent records per document
MaxCycles == 2       \* cycles started by Run
MaxDay == 1          \* the clock runs over days 0..MaxDay
MaxBatch == 4        \* batch sizes tried by the Warehouse_Entry harnesses
MaxEntries == 6      \* entries submitted by the batch harness
MaxCalls == 4        \* calls made by the Warehouse_Entry harness

----------------------------------------------------------------------------
(* Wall clock: datetime.now(timezone.utc) *)

DaySeconds == 24 * 60 * 60
HourSeconds == 60 * 60
Hours == {0, 12, 23}
Offsets == {600, 601, 3000}        \* seconds past the hour: hh:10:00, hh:10:01, hh:50:00
Times == {d * DaySeconds + h * HourSeconds + o : d \in 0..MaxDay, h \in Hours, o \in Offsets}

\* datetime.hour
Hour(t) == (t % DaySeconds) \div HourSeconds

\* timedelta.seconds of (a - b): the seconds field, 0 <= seconds < 86400, days kept apart
TimedeltaSeconds(a, b) == (a - b) % DaySeconds

peak_sleep == 10 * 60
off_sleep == 60 * 60
max_stale == 24 * 60 * 60

\* lines 395-398
CurrentSleep(t) == IF 12 <= Hour(t) /\ Hour(t) <= 24 THEN peak_sleep ELSE off_sleep

\* lines 404-405
BoundaryCrossed(t, last) ==
    (Hour(t) < 12 /\ Hour(last) > 12) \/ (Hour(t) > 12 /\ Hour(last) < 12)

\* lines 410-411
IsStale(t, last) == TimedeltaSeconds(t, last) > max_stale

----------------------------------------------------------------------------
(* Documents and entries *)

\* A parent record: "Lynda" passes the filter of line 294; "Other" carries another
\* import_source or none at all (lines 295 and 297 both continue); "NoField" passes
\* the filter but lacks a mapped attribute (KeyError at lines 300-313).
RecordTags == {"Lynda", "Other", "NoField"}

Docs == UNION {[1..n -> RecordTags] : n \in 0..MaxRecords}

NoRAW == [kind |-> "None", results |-> <<>>]
\* falsy JSON ({} or [] or null), a document without 'results', a document
RawValues == {[kind |-> "falsy", results |-> <<>>], [kind |-> "noresults", results |-> <<>>]}
                \cup {[kind |-> "doc", results |-> d] : d \in Docs}

NoEntry == [isNone |-> TRUE, subject |-> 0]
Entry(id) == [isNone |-> FALSE, subject |-> id]

BATCH == 1000      \* line 324

ZeroStats == [Update |-> 0, Delete |-> 0, Skip |-> 0]

\* lines 293-297: the inclusion filter
Included(tag) == tag \in {"Lynda", "NoField"}

----------------------------------------------------------------------------
(* Warehouse_Entry, lines 351-390.  ok: whether the sink accepts the call.   *)
(* Result: the buffer, the counter, the sink calls made and whether the       *)
(* GlobusAPIError was re-raised.                                              *)

\* the single-update test is never true: an entry with batch=1 is buffered
IsSingle_Never(entry, batch) == FALSE

\* line 352: the single-update mode
IsSingle(entry, batch) == ~entry.isNone /\ batch = 1

\* the entry is put in front of the buffer instead of behind it
BufferAdd_Prepend(eb, has, entry) ==
    LET eb0 == IF has THEN eb ELSE <<>>
    IN IF ~entry.isNone THEN <<entry>> \o eb0 ELSE eb0

\* lines 364-367: create the buffer if needed and append the entry
BufferAdd(eb, has, entry) ==
    LET eb0 == IF has THEN eb ELSE <<>>
    IN IF ~entry.isNone THEN Append(eb0, entry) ELSE eb0

\* the threshold test is off by one
KeepBuffering_OffByOne(n, batch) == n < 1 \/ n <= batch

\* the test for an empty buffer is missing
KeepBuffering_NoEmptyTest(n, batch) == n < batch

\* lines 368-371: nothing to send yet
KeepBuffering(n, batch) == n < 1 \/ n < batch

\* the buffer is cleared whether or not the sink accepted the call
BufferAfterIngest_ClearAlways(eb1, ok) == <<>>

\* the buffer is not reset after an accepted ingest
BufferAfterIngest_NeverCleared(eb1, ok) == eb1

\* lines 379-389: the buffer after the ingest call
BufferAfterIngest(eb1, ok) == IF ok THEN <<>> ELSE eb1

\* an accepted call counts as one update, however many entries it carried
CountUpdate_PerCall(stats, n, ok) == IF ok THEN [stats EXCEPT !.Update = @ + 1] ELSE stats

\* lines 355 and 387: the Update counter after a call that sent n entries
CountUpdate(stats, n, ok) == IF ok THEN [stats EXCEPT !.Update = @ + n] ELSE stats

\* the handler logs the rejection and does not raise it again
Reraise_Swallowed(ok) == FALSE

\* lines 356-361 and 381-386: a rejection by the sink is logged and re-raised
Reraise(ok) == ~ok

Warehouse_Entry(eb, has, stats, entry, batch, ok) ==
    IF IsSingle(entry, batch)
    THEN [entry_batch |-> eb, has |-> has,
          STATS |-> CountUpdate(stats, 1, ok),
          calls |-> <<[op |-> "update_entry", data |-> <<entry>>, ok |-> ok]>>,
          raised |-> Reraise(ok)]
    ELSE LET eb1 == BufferAdd(eb, has, entry)
         IN IF KeepBuffering(Len(eb1), batch)
            THEN [entry_batch |-> eb1, has |-> TRUE, STATS |-> stats,
                  calls |-> <<>>, raised |-> FALSE]
            ELSE [entry_batch |-> BufferAfterIngest(eb1, ok), has |-> TRUE,
                  STATS |-> CountUpdate(stats, Len(eb1), ok),
                  calls |-> <<[op |-> "ingest", data |-> eb1, ok |-> ok]>>,
                  raised |-> Reraise(ok)]

----------------------------------------------------------------------------
(* Inputs *)

P_a == <<".","/","a">>
P_b == <<".","/","b">>
U_hp == <<"/","/","h","/","p">>
U_h == <<"/","/","h">>

SrcArgs == {NoneStr, <<>>, S_file \o Colon \o P_a, S_file,
            S_http \o Colon \o U_hp, S_https \o Colon \o U_hp, S_http \o Colon \o U_h,
            S_http, S_https \o Colon \o <<"h">>, S_ftp \o Colon \o U_hp, Colon \o <<"x">>}

DestArgs == {NoneStr, S_index, S_analyze, S_file \o Colon \o P_b, S_file,
             S_warehouse, S_index \o Colon \o <<"x">>}

DaemonActions == {"None", "start", "stop", "restart"}

\* every combination, for the specification of Setup
ArgsSet == [src : SrcArgs, dest : DestArgs, daemonaction : DaemonActions]
ConfigSet == [DESTINATION : {NoneStr, S_file \o Colon \o P_b}, CIDER_LAST_URL : BOOLEAN]

\* the command lines the whole program is run on
RunArgs == [src : {NoneStr, S_file, S_http \o Colon \o U_hp, S_http \o Colon \o U_h},
            dest : {NoneStr, S_analyze, S_file \o Colon \o P_b},
            daemonaction : DaemonActions]
RunConfigs == [DESTINATION : {NoneStr}, CIDER_LAST_URL : BOOLEAN]

NoEndpoint == [scheme |-> NoneStr, path |-> NoneStr, uri |-> NoneStr]
NoArgs == [src |-> NoneStr, dest |-> NoneStr, daemonaction |-> "None"]
NoConfig == [DESTINATION |-> NoneStr, CIDER_LAST_URL |-> FALSE]
NoCall == [called |-> FALSE, entry |-> NoEntry, batch |-> 0, ok |-> FALSE,
           raised |-> FALSE, before |-> <<>>, hadBefore |-> FALSE, statsBefore |-> ZeroStats,
           logBefore |-> 0]

Time0 == CHOOSE t \in Times : \A u \in Times : t <= u

SIGINT == 2
SIGTERM == 15

setupVars == <<args, config, src, dest>>
clockVars == <<now, start, end, last_run>>
ingestVars == <<STATS, has_entry_batch, entry_batch, sinkLog>>
docVars == <<RAW, pos>>
countVars == <<cycles, summaries, cycleSummaries, sigSeen>>
exitVars == <<rc, raised, raisedIn>>
harnessVars == <<hB, hN, hSub, hCalls, hLast, hArrived>>

----------------------------------------------------------------------------
(* The program: __main__, lines 455-466 *)

InitWith(A, C) ==
    /\ pc = "Setup"
    /\ args \in A
    /\ config \in C
    /\ src = NoEndpoint /\ dest = NoEndpoint
    /\ rc = 0 /\ raised = "none" /\ raisedIn = "none"
    /\ now = Time0 /\ start = 0 /\ end = 0 /\ last_run = 0
    /\ STATS = ZeroStats /\ has_entry_batch = FALSE /\ entry_batch = <<>>
    /\ RAW = NoRAW /\ pos = 0 /\ sinkLog = <<>>
    /\ cycles = 0 /\ summaries = 0 /\ cycleSummaries = 0 /\ sigSeen = FALSE
    /\ hB = 0 /\ hN = 0 /\ hSub = 0 /\ hCalls = 0 /\ hLast = NoCall /\ hArrived = <<>>

Init == InitWith(RunArgs, RunConfigs)

\* An exception reaches line 461 (rc = 1), or sys.exit(code) was called.
Die(exc, where, code) ==
    /\ pc' = "Exit" /\ rc' = code /\ raised' = exc /\ raisedIn' = where

\* Router.Setup, lines 73-171
Setup ==
    /\ pc = "Setup"
    /\ LET r == SetupResult(args, config) IN
        /\ args' = r.args /\ src' = r.src /\ dest' = r.dest
        /\ IF r.end = "ok"
           THEN pc' = "Run" /\ UNCHANGED exitVars
           ELSE Die(IF r.end = "exit" THEN "SystemExit" ELSE r.end, "Setup", 1)
    /\ UNCHANGED <<config, clockVars, ingestVars, docVars, countVars, harnessVars>>

\* the counters of the previous cycle are kept at the top of the loop
Run_Start_KeepsStats ==
    /\ pc = "Run"
    /\ cycles < MaxCycles
    /\ \E t \in Times : t >= now /\ now' = t /\ start' = t
    /\ sinkLog' = <<>>
    /\ cycles' = cycles + 1 /\ cycleSummaries' = 0
    /\ pc' = "Fetch"
    /\ UNCHANGED <<setupVars, exitVars, end, last_run, STATS, has_entry_batch, entry_batch,
                   docVars, summaries, sigSeen, harnessVars>>

\* Run, lines 429-431: the top of the loop
Run_Start ==
    /\ pc = "Run"
    /\ cycles < MaxCycles
    /\ \E t \in Times : t >= now /\ now' = t /\ start' = t
    /\ STATS' = ZeroStats
    /\ sinkLog' = <<>>
    /\ cycles' = cycles + 1 /\ cycleSummaries' = 0
    /\ pc' = "Fetch"
    /\ UNCHANGED <<setupVars, exitVars, end, last_run, has_entry_batch, entry_batch,
                   docVars, summaries, sigSeen, harnessVars>>

\* Read_Cache, lines 244-254, called at line 434
Read_Cache ==
    /\ pc = "Fetch"
    /\ src.scheme = S_file
    /\ IF src.path = NoneStr
       THEN Die("TypeError", "Read_Cache", 1) /\ UNCHANGED docVars    \* open(None)
       ELSE \/ \E d \in RawValues : RAW' = d /\ pos' = 0 /\ pc' = "Dispatch"
                                     /\ UNCHANGED exitVars
            \/ Die("SystemExit", "Read_Cache", 1) /\ UNCHANGED docVars   \* not JSON
            \/ Die("FileNotFoundError", "Read_Cache", 1) /\ UNCHANGED docVars
    /\ UNCHANGED <<setupVars, clockVars, ingestVars, countVars, harnessVars>>

\* urllib.parse.urlparse of scheme://netloc/path
UrlParse(u) ==
    LET idx == Find(u, ":")
        rest == SliceFrom(u, idx + 1)
        after == SliceFrom(rest, 2)
        j == Find(after, "/")
    IN  IF idx <= 0 THEN [scheme |-> <<>>, netloc |-> <<>>, path |-> u]
        ELSE IF Slice(rest, 0, 2) # <<"/","/">>
            THEN [scheme |-> Slice(u, 0, idx), netloc |-> <<>>, path |-> rest]
        ELSE [scheme |-> Slice(u, 0, idx),
              netloc |-> IF j < 0 THEN after ELSE Slice(after, 0, j),
              path |-> IF j < 0 THEN <<>> ELSE SliceFrom(after, j)]

\* lines 198-204
UrlValid(u) ==
    LET urlp == UrlParse(u) IN
    urlp.scheme # <<>> /\ urlp.netloc # <<>> /\ urlp.path # <<>>
        /\ urlp.scheme \in {S_http, S_https}

\* Retrieve_Source, lines 197-231, called at line 436: the headers of line 213
\* read the undefined global name `affiliation`.
Retrieve_Source ==
    /\ pc = "Fetch"
    /\ src.scheme # S_file
    /\ IF UrlValid(src.uri)
       THEN Die("NameError", "Retrieve_Source", 1)
       ELSE Die("SystemExit", "Retrieve_Source", 1)
    /\ UNCHANGED <<setupVars, clockVars, ingestVars, docVars, countVars, harnessVars>>

\* truthiness of RAW at line 438
RawTruthy(raw) == raw.kind \in {"noresults", "doc"}

\* Run, lines 438-444: no data, or the sink path chosen by the destination scheme.
\* For 'index' this runs Warehouse_Info up to the loop of line 292.
Dispatch ==
    /\ pc = "Dispatch"
    /\ \E searchOk \in BOOLEAN :
        IF ~RawTruthy(RAW) THEN pc' = "LoopTest" /\ UNCHANGED exitVars
        ELSE IF dest.scheme = S_file
            THEN IF dest.path = NoneStr
                 THEN Die("TypeError", "Write_Cache", 1)
                 ELSE pc' = "Summary" /\ UNCHANGED exitVars
        ELSE IF dest.scheme = S_analyze
            THEN pc' = "Summary" /\ UNCHANGED exitVars
        ELSE IF ~searchOk
            THEN Die("GlobusAPIError", "Warehouse_Info", 1)
        ELSE IF RAW.kind = "noresults"
            THEN Die("KeyError", "Warehouse_Info", 1)
        ELSE pc' = "Info" /\ UNCHANGED exitVars
    /\ pos' = 1
    /\ UNCHANGED <<setupVars, clockVars, ingestVars, RAW, countVars, harnessVars>>

\* Warehouse_Info, lines 292-336: one iteration of the loop over parent records
Warehouse_Info_Record ==
    /\ pc = "Info"
    /\ pos <= Len(RAW.results)
    /\ LET tag == RAW.results[pos] IN
        IF ~Included(tag)
        THEN /\ pos' = pos + 1 /\ pc' = "Info"
             /\ UNCHANGED <<exitVars, ingestVars>>
        ELSE IF tag = "NoField"
        THEN /\ Die("KeyError", "Warehouse_Info", 1)
             /\ UNCHANGED <<pos, ingestVars>>
        ELSE \E ok \in BOOLEAN :
            LET r == Warehouse_Entry(entry_batch, has_entry_batch, STATS, Entry(pos), BATCH, ok)
            IN  /\ entry_batch' = r.entry_batch /\ has_entry_batch' = r.has
                /\ STATS' = r.STATS /\ sinkLog' = sinkLog \o r.calls
                /\ IF r.raised
                   THEN Die("GlobusAPIError", "Warehouse_Entry", 1) /\ UNCHANGED pos
                   ELSE pos' = pos + 1 /\ pc' = "Info" /\ UNCHANGED exitVars
    /\ UNCHANGED <<setupVars, clockVars, RAW, countVars, harnessVars>>

\* the call after the loop uses the threshold of the loop and so flushes nothing
Warehouse_Info_Final_Threshold ==
    /\ pc = "Info"
    /\ pos > Len(RAW.results)
    /\ \E ok \in BOOLEAN :
        LET r == Warehouse_Entry(entry_batch, has_entry_batch, STATS, NoEntry, BATCH, ok)
        IN  /\ entry_batch' = r.entry_batch /\ has_entry_batch' = r.has
            /\ STATS' = r.STATS /\ sinkLog' = sinkLog \o r.calls
            /\ IF r.raised
               THEN Die("GlobusAPIError", "Warehouse_Entry", 1)
               ELSE pc' = "Summary" /\ UNCHANGED exitVars
    /\ UNCHANGED <<setupVars, clockVars, docVars, countVars, harnessVars>>

\* Warehouse_Info, lines 346-347: the final flush
Warehouse_Info_Final ==
    /\ pc = "Info"
    /\ pos > Len(RAW.results)
    /\ \E ok \in BOOLEAN :
        LET r == Warehouse_Entry(entry_batch, has_entry_batch, STATS, NoEntry, 0, ok)
        IN  /\ entry_batch' = r.entry_batch /\ has_entry_batch' = r.has
            /\ STATS' = r.STATS /\ sinkLog' = sinkLog \o r.calls
            /\ IF r.raised
               THEN Die("GlobusAPIError", "Warehouse_Entry", 1)
               ELSE pc' = "Summary" /\ UNCHANGED exitVars
    /\ UNCHANGED <<setupVars, clockVars, docVars, countVars, harnessVars>>

\* Run, lines 446-448: self.end is read from the clock and the summary line logged.
\* The work of one cycle is taken to last less than an hour.
Summary ==
    /\ pc = "Summary"
    /\ \E t \in Times : t >= now /\ t - now < HourSeconds /\ now' = t /\ end' = t
    /\ summaries' = summaries + 1 /\ cycleSummaries' = cycleSummaries + 1
    /\ pc' = "LoopTest"
    /\ UNCHANGED <<setupVars, exitVars, start, last_run, ingestVars, docVars, cycles,
                   sigSeen, harnessVars>>

\* the time handed to smart_sleep is read when the loop decides to sleep
LoopTest_PassesNow ==
    /\ pc = "LoopTest"
    /\ IF args.daemonaction = "None"
       THEN Die("none", "none", 0) /\ UNCHANGED last_run
       ELSE pc' = "Sleep" /\ last_run' = now /\ UNCHANGED exitVars
    /\ RAW' = NoRAW /\ pos' = 0
    /\ UNCHANGED <<setupVars, now, start, end, ingestVars, countVars, harnessVars>>

\* Run, lines 449-451.  RAW is not read again before line 434/436 assigns it.
LoopTest ==
    /\ pc = "LoopTest"
    /\ IF args.daemonaction = "None"
       THEN Die("none", "none", 0) /\ UNCHANGED last_run     \* router.exit(None)
       ELSE pc' = "Sleep" /\ last_run' = start /\ UNCHANGED exitVars
    /\ RAW' = NoRAW /\ pos' = 0
    /\ UNCHANGED <<setupVars, now, start, end, ingestVars, countVars, harnessVars>>

\* smart_sleep, lines 395-400: choose the interval from the hour read at t1, sleep
smart_sleep_Sleep ==
    /\ pc = "Sleep"
    /\ \E t1 \in Times, t2 \in Times :
        /\ t1 >= now
        /\ t2 >= t1 + CurrentSleep(t1)
        /\ now' = t2
    /\ pc' = "Check"
    /\ UNCHANGED <<setupVars, exitVars, start, end, last_run, ingestVars, docVars,
                   countVars, harnessVars>>

\* smart_sleep, lines 403-426: the checks after waking.  Line 417 calls a method the
\* class does not define; without a probe URL line 419 reads the unassigned local
\* ts_json, and the handler of line 425 reads it again.
smart_sleep_Check ==
    /\ pc = "Check"
    /\ IF BoundaryCrossed(now, last_run) \/ IsStale(now, last_run)
       THEN pc' = "Run" /\ last_run' = 0 /\ end' = 0 /\ UNCHANGED exitVars
       ELSE /\ IF config.CIDER_LAST_URL
               THEN Die("AttributeError", "smart_sleep", 1)
               ELSE Die("UnboundLocalError", "smart_sleep", 1)
            /\ UNCHANGED <<last_run, end>>
    /\ UNCHANGED <<setupVars, now, start, ingestVars, docVars, countVars, harnessVars>>

\* exit_signal, lines 188-190, installed at lines 94-95: sys.exit(signum) raises
\* SystemExit at the point the main thread has reached
exit_signal ==
    /\ pc \in {"Run", "Fetch", "Dispatch", "Info", "Summary", "LoopTest", "Sleep", "Check"}
    /\ \E signum \in {SIGINT, SIGTERM} : Die("SystemExit", "exit_signal", signum)
    /\ sigSeen' = TRUE
    /\ UNCHANGED <<setupVars, clockVars, ingestVars, docVars, cycles, summaries,
                   cycleSummaries, harnessVars>>

\* exit_signal delivered while the main thread is inside the try of lines 293-295:
\* the bare except of line 296 catches the SystemExit and the loop continues with
\* the next record
exit_signal_InFilter ==
    /\ pc = "Info"
    /\ pos <= Len(RAW.results)
    /\ sigSeen' = TRUE
    /\ pos' = pos + 1
    /\ UNCHANGED <<pc, setupVars, exitVars, clockVars, ingestVars, RAW, cycles, summaries,
                   cycleSummaries, harnessVars>>

Next ==
    \/ Setup
    \/ Run_Start
    \/ Read_Cache
    \/ Retrieve_Source
    \/ Dispatch
    \/ Warehouse_Info_Record
    \/ Warehouse_Info_Final
    \/ Summary
    \/ LoopTest
    \/ smart_sleep_Sleep
    \/ smart_sleep_Check
    \/ exit_signal
    \/ exit_signal_InFilter

Spec == Init /\ [][Next]_vars

\* Setup on every command line, up to the start of the first cycle
InitSetup == InitWith(ArgsSet, ConfigSet)
NextSetup == Setup \/ Run_Start
SpecSetup == InitSetup /\ [][NextSetup]_vars

----------------------------------------------------------------------------
(* Warehouse_Entry driven directly: a caller that owns a Router whose STATS   *)
(* counter exists and whose buffer attribute does not exist yet.              *)

InitIngest ==
    /\ args = NoArgs /\ config = NoConfig
    /\ src = NoEndpoint /\ dest = NoEndpoint
    /\ rc = 0 /\ raised = "none" /\ raisedIn = "none"
    /\ now = Time0 /\ start = 0 /\ end = 0 /\ last_run = 0
    /\ STATS = ZeroStats /\ has_entry_batch = FALSE /\ entry_batch = <<>>
    /\ RAW = NoRAW /\ pos = 0 /\ sinkLog = <<>>
    /\ cycles = 0 /\ summaries = 0 /\ cycleSummaries = 0 /\ sigSeen = FALSE
    /\ hSub = 0 /\ hCalls = 0 /\ hLast = NoCall /\ hArrived = <<>>

\* one call Warehouse_Entry(entry, batch) whose sink call, if any, is accepted iff ok
Call(entry, batch, ok) ==
    LET r == Warehouse_Entry(entry_batch, has_entry_batch, STATS, entry, batch, ok)
    IN  /\ entry_batch' = r.entry_batch /\ has_entry_batch' = r.has
        /\ STATS' = r.STATS /\ sinkLog' = sinkLog \o r.calls
        /\ hCalls' = hCalls + 1
        /\ hSub' = IF entry.isNone THEN hSub ELSE hSub + 1
        /\ hArrived' = IF entry.isNone \/ IsSingle(entry, batch) THEN hArrived
                       ELSE Append(hArrived, entry)
        /\ hLast' = [called |-> TRUE, entry |-> entry, batch |-> batch, ok |-> ok,
                     raised |-> r.raised, before |-> entry_batch,
                     hadBefore |-> has_entry_batch, statsBefore |-> STATS,
                     logBefore |-> Len(sinkLog)]
        /\ UNCHANGED <<setupVars, exitVars, clockVars, docVars, countVars>>

\* N entries with one batch size, then the final flush, on an accepting sink
InitBatch ==
    /\ pc = "Submitting"
    /\ hB \in 1..MaxBatch /\ hN \in 0..MaxEntries
    /\ InitIngest

Batch_Submit ==
    /\ pc = "Submitting"
    /\ hSub < hN
    /\ Call(Entry(hSub + 1), hB, TRUE)
    /\ UNCHANGED <<pc, hB, hN>>

Batch_Final ==
    /\ pc = "Submitting"
    /\ hSub = hN
    /\ Call(NoEntry, 0, TRUE)
    /\ pc' = "Flushed"
    /\ UNCHANGED <<hB, hN>>

NextBatch == Batch_Submit \/ Batch_Final
SpecBatch == InitBatch /\ [][NextBatch]_vars

\* any sequence of calls: with or without an entry, any batch size, any sink answer
InitEntry ==
    /\ pc = "Calling"
    /\ hB = 0 /\ hN = 0
    /\ InitIngest

Entry_Call ==
    /\ pc = "Calling"
    /\ hCalls < MaxCalls
    /\ \E withEntry \in BOOLEAN, batch \in 0..MaxBatch, ok \in BOOLEAN :
        Call(IF withEntry THEN Entry(hSub + 1) ELSE NoEntry, batch, ok)
    /\ UNCHANGED <<pc, hB, hN>>

NextEntry == Entry_Call
SpecEntry == InitEntry /\ [][NextEntry]_vars

----------------------------------------------------------------------------
(* Properties *)

\* bulk ingest calls in a sink log
Ingests(log) == {i \in 1..Len(log) : log[i].op = "ingest"}
Updates(log) == {i \in 1..Len(log) : log[i].op = "update_entry"}
Flushes == Cardinality(Ingests(sinkLog))

\* C1 as stated: submitting N entries with batch B >= 1 on an accepting sink flushes
\* floor(N/B) times and leaves N mod B entries buffered; the final call with batch 0
\* then flushes exactly once more and STATS['Update'] equals N.
C1_Original ==
    /\ (pc = "Submitting" /\ hSub = hN) =>
            Flushes = hN \div hB /\ Len(entry_batch) = hN % hB
    /\ pc = "Flushed" => Flushes = (hN \div hB) + 1 /\ STATS.Update = hN

\* C1 amended: for B >= 2, submission flushes floor(N/B) times and leaves N mod B
\* entries buffered, and the final call flushes once when that remainder is not
\* empty and not at all when it is empty; for B = 1 every entry is sent as a single
\* update, nothing is buffered and no bulk flush is made.  In every case
\* STATS['Update'] equals N after the final call and the buffer is empty.
C1_BatchFlushes ==
    /\ (pc = "Submitting" /\ hSub = hN /\ hB >= 2) =>
            Flushes = hN \div hB /\ Len(entry_batch) = hN % hB
    /\ (pc = "Flushed" /\ hB >= 2) =>
            Flushes = (hN \div hB) + (IF hN % hB > 0 THEN 1 ELSE 0)
    /\ (hB = 1 /\ hSub = hN) =>
            Flushes = 0 /\ Cardinality(Updates(sinkLog)) = hN /\ Len(entry_batch) = 0
    /\ pc = "Flushed" => STATS.Update = hN /\ entry_batch = <<>>

C1_Witness ==
    pc = "Flushed" /\ hB >= 2 /\ hN > hB /\ hN % hB > 0 /\ Flushes = (hN \div hB) + 1

\* C2 as stated: after a batched call whose flush the sink rejected, the buffer is as
\* long as it was before the call and STATS['Update'] has not grown.
C2_Original ==
    (hLast.called /\ hLast.raised /\ ~IsSingle(hLast.entry, hLast.batch)) =>
        /\ Len(entry_batch) = Len(hLast.before)
        /\ STATS.Update = hLast.statsBefore.Update

\* C2 amended: after a batched call whose flush the sink rejected, the buffer holds
\* exactly the entries it held before the call followed by the entry of the call, if
\* it had one (so the length is unchanged for a call without entry and one more for a
\* call with an entry), and STATS['Update'] has not grown.
C2_RejectedFlushKeepsBatch ==
    (hLast.called /\ hLast.raised /\ ~IsSingle(hLast.entry, hLast.batch)) =>
        /\ entry_batch = (IF hLast.entry.isNone THEN hLast.before
                          ELSE Append(hLast.before, hLast.entry))
        /\ sinkLog[Len(sinkLog)] = [op |-> "ingest", data |-> entry_batch, ok |-> FALSE]
        /\ STATS = hLast.statsBefore

C2_Witness ==
    /\ hLast.called /\ hLast.raised /\ ~hLast.entry.isNone /\ hLast.batch > 1
    /\ Len(hLast.before) >= 1 /\ Len(entry_batch) = Len(hLast.before) + 1

\* entries accepted by the sink in the bulk ingest calls before call i of the log
AcceptedBefore(log, i) ==
    LET F[k \in 0..Len(log)] ==
            IF k = 0 THEN 0
            ELSE F[k-1] + (IF log[k].op = "ingest" /\ log[k].ok THEN Len(log[k].data) ELSE 0)
    IN F[i - 1]

\* C6: in batched mode nothing leaves the buffer except by an accepted flush, and
\* every ingest call carries the buffered entries in arrival order: each ingest call
\* sends exactly the entries that arrived after the ones already accepted, in the
\* order they arrived, and the buffer holds the arrivals not yet accepted.
C6_ArrivalOrder ==
    /\ \A i \in Ingests(sinkLog) :
          LET a == AcceptedBefore(sinkLog, i)
          IN sinkLog[i].data = SubSeq(hArrived, a + 1, a + Len(sinkLog[i].data))
    /\ entry_batch = SubSeq(hArrived, AcceptedBefore(sinkLog, Len(sinkLog) + 1) + 1,
                            Len(hArrived))
    /\ (hLast.called /\ Len(entry_batch) < Len(hLast.before)) =>
          /\ ~hLast.raised /\ entry_batch = <<>>
          /\ sinkLog # <<>> /\ sinkLog[Len(sinkLog)].op = "ingest"
          /\ sinkLog[Len(sinkLog)].ok

C6_Witness ==
    /\ Cardinality({i \in Ingests(sinkLog) : sinkLog[i].ok}) >= 1
    /\ Cardinality({i \in Ingests(sinkLog) : ~sinkLog[i].ok}) >= 1
    /\ \E i \in Ingests(sinkLog) : Len(sinkLog[i].data) >= 2
    /\ Len(entry_batch) >= 1

\* the step is not the delivery of a signal
NoSignal == raisedIn' # "exit_signal"

\* C3: at a check after waking with more than max_stale seconds elapsed since
\* last_run, no half-day boundary crossing and no probe URL configured, smart_sleep
\* returns (Run goes on to its next cycle).
C3_StaleFires ==
    [][(pc = "Check" /\ now - last_run > max_stale /\ ~BoundaryCrossed(now, last_run)
            /\ ~config.CIDER_LAST_URL /\ NoSignal)
        => pc' = "Run"]_vars

\* the hours of two times are on opposite sides of 12:00 UTC
OppositeSides(t, last) == (Hour(t) < 12) # (Hour(last) < 12)

\* C4: at a check after waking where the hours of now and last_run are on opposite
\* sides of 12:00 UTC, smart_sleep returns, whatever interval was slept.
C4_BoundaryFires ==
    [][(pc = "Check" /\ OppositeSides(now, last_run) /\ NoSignal) => pc' = "Run"]_vars

\* the records of a document that pass / do not pass the inclusion filter, in order
Matching(results) == SelectSeq([i \in 1..Len(results) |-> [tag |-> results[i], id |-> i]],
                               LAMBDA r : r.tag = "Lynda")
NotMatching(results) == {i \in 1..Len(results) : results[i] = "Other"}

\* C5: at the end of a cycle of Warehouse_Info over a document with m >= 1 matching
\* and k non-matching records (all well-formed) and an accepting sink, the sink has
\* received exactly one bulk ingest call, carrying exactly the m matching entries,
\* and STATS['Skip'] equals k (no signal having been delivered).
C5_OneIngestAndSkipped ==
    (pc = "Summary" /\ dest.scheme = S_index /\ RAW.kind = "doc" /\ ~sigSeen
        /\ Len(Matching(RAW.results)) >= 1
        /\ \A i \in 1..Len(RAW.results) : RAW.results[i] # "NoField")
    =>  /\ Len(sinkLog) = 1
        /\ sinkLog[1].op = "ingest" /\ sinkLog[1].ok
        /\ sinkLog[1].data = [i \in 1..Len(Matching(RAW.results)) |->
                                    Entry(Matching(RAW.results)[i].id)]
        /\ STATS.Skip = Cardinality(NotMatching(RAW.results))

\* C7: no exception leaves smart_sleep: the process never ends on an exception
\* raised by the upstream probe of smart_sleep.
C7_ProbeFailureNonFatal ==
    ~(pc = "Exit" /\ raisedIn = "smart_sleep")

\* C8: without a daemon action Run returns after exactly one cycle; with a daemon
\* action every cycle is followed by smart_sleep and, unless a signal arrives,
\* smart_sleep is followed by the next cycle.
C8_RunLoop ==
    [][/\ (pc = "LoopTest" /\ args.daemonaction = "None" /\ NoSignal)
            => (pc' = "Exit" /\ rc' = 0 /\ cycles' = 1)
       /\ (pc = "LoopTest" /\ args.daemonaction # "None" /\ NoSignal) => pc' = "Sleep"
       /\ (pc = "Sleep" /\ NoSignal) => pc' = "Check"
       /\ (pc = "Check" /\ NoSignal) => pc' \in {"Sleep", "Run"}]_vars

\* the source is a well-formed http(s) URL and the destination is the index sink
DaemonPermitted ==
    LET sp == SplitScheme(args.src)
        dp == SplitScheme(args.dest)
    IN  /\ sp.scheme \in {S_http, S_https}
        /\ sp.path # NoneStr /\ Slice(sp.path, 0, 2) = <<"/","/">>
        /\ dp.scheme = S_index

\* C9: with a daemon action, Setup lets the run proceed exactly when the source is
\* http/https and the destination is the index sink; every other combination ends
\* with exit code 1 before any cycle.
C9_DaemonOnlyHttpToIndex ==
    (pc # "Setup" /\ args.daemonaction # "None") =>
        IF DaemonPermitted THEN pc # "Exit" \/ raisedIn # "Setup"
        ELSE pc = "Exit" /\ rc = 1 /\ cycles = 0

\* C10: when source and destination both resolve to the file scheme, Setup ends the
\* process with exit code 1 before any cycle, whatever the paths and also when the
\* source is the default.
C10_BothFileRejected ==
    (pc # "Setup" /\ SplitScheme(args.src).scheme = S_file
        /\ SplitScheme(args.dest).scheme = S_file)
    => (pc = "Exit" /\ rc = 1 /\ raised = "SystemExit" /\ raisedIn = "Setup" /\ cycles = 0)

C10_Witness ==
    /\ pc = "Exit" /\ rc = 1 /\ raisedIn = "Setup"
    /\ args.src = default_file /\ dest.scheme = S_file /\ dest.path = P_b
    /\ config.DESTINATION # NoneStr /\ args.daemonaction = "None"

\* C11: for every source or destination string whose scheme is allowed for its role,
\* Setup stores the original string unchanged in uri; a string without ':' is taken
\* whole as the scheme with a null path, and Setup never ends in an unhandled
\* exception.
C11_BareSchemeParsed ==
    pc # "Setup" =>
        /\ raised # "TypeError"
        /\ (src.scheme \in SrcSchemes /\ Find(args.src, ":") < 0)
                => (src.scheme = args.src /\ src.path = NoneStr /\ src.uri = args.src)
        /\ (src.uri # NoneStr => src.uri = args.src)
        /\ (dest.scheme \in DestSchemes => dest.uri = args.dest)

\* C12: with a well-formed remote source the reader returns a parsed document or
\* the no-data signal, whatever the body of the answer: no exception leaves
\* Retrieve_Source, so the cycle goes on to the loop test and, in daemon mode, to
\* smart_sleep.
C12_ReaderReturnsDocOrNoData ==
    (src.scheme \in {S_http, S_https} /\ UrlValid(src.uri))
        => ~(pc = "Exit" /\ raisedIn = "Retrieve_Source")

C14_Original ==
    (hLast.called /\ hLast.batch = 1) =>
        (entry_batch = hLast.before /\ has_entry_batch = hLast.hadBefore)

\* C14: a call of Warehouse_Entry with an entry and batch=1 sends exactly one
\* single update carrying that entry, adds one to STATS['Update'] when the sink
\* accepts it, and neither creates, appends to, flushes nor clears the buffer.
C14_SingleModeUnbuffered ==
    (hLast.called /\ ~hLast.entry.isNone /\ hLast.batch = 1) =>
        /\ Len(sinkLog) = hLast.logBefore + 1
        /\ sinkLog[Len(sinkLog)] = [op |-> "update_entry", data |-> <<hLast.entry>>,
                                    ok |-> hLast.ok]
        /\ STATS = [hLast.statsBefore EXCEPT
                        !.Update = @ + (IF hLast.ok THEN 1 ELSE 0)]
        /\ hLast.raised = ~hLast.ok
        /\ entry_batch = hLast.before /\ has_entry_batch = hLast.hadBefore

C14_Witness ==
    /\ hLast.called /\ ~hLast.entry.isNone /\ hLast.batch = 1 /\ hLast.ok
    /\ Len(hLast.before) = 2 /\ entry_batch = hLast.before
    /\ STATS.Update = hLast.statsBefore.Update + 1

\* the last call of Warehouse_Entry made a bulk ingest that the sink accepted
FlushedByLastCall ==
    /\ hLast.called /\ Len(sinkLog) = hLast.logBefore + 1
    /\ sinkLog[Len(sinkLog)].op = "ingest" /\ sinkLog[Len(sinkLog)].ok

\* C16 as first stated: right after every accepted flush the buffer is strictly
\* shorter than the batch value of the flushing call, the value 0 included.
C16_Original == FlushedByLastCall => Len(entry_batch) < hLast.batch

\* C16: right after every accepted flush made by Warehouse_Entry the buffer is
\* empty; it is therefore strictly shorter than the batch value of the flushing
\* call whenever that value is at least 1, and of length 0 when the value is 0.
C16_EmptyAfterFlush ==
    FlushedByLastCall =>
        /\ entry_batch = <<>>
        /\ (hLast.batch >= 1 => Len(entry_batch) < hLast.batch)
        /\ (hLast.batch = 0 => Len(entry_batch) = hLast.batch)

C16_Witness ==
    /\ FlushedByLastCall /\ hLast.batch = 3 /\ ~hLast.entry.isNone
    /\ Len(hLast.before) = 3 /\ Len(sinkLog[Len(sinkLog)].data) = 4
    /\ entry_batch = <<>>

\* C15: once SIGINT or SIGTERM has been delivered after Setup, whatever the point
\* of the cycle, the process is at exit with the signal number as its exit code:
\* no record is processed, no sink call made and no flush attempted after it.
C15_SignalExitsAtOnce ==
    sigSeen => (pc = "Exit" /\ raisedIn = "exit_signal" /\ rc \in {SIGINT, SIGTERM})

\* C17 as first stated: the counters are zero when a cycle starts and every cycle
\* that reaches its end has logged the summary exactly once, with or without data.
C17_Original ==
    /\ (pc = "Fetch" => STATS = ZeroStats)
    /\ (pc = "LoopTest" => cycleSummaries = 1)

\* C17: the counters are reset to zero at the start of every cycle, so no count
\* carries over; a cycle whose source returned data logs the summary exactly once,
\* at its end, and a cycle whose source returned no data logs none.
C17_ResetAndSummary ==
    /\ (pc \in {"Fetch", "Dispatch"} => (STATS = ZeroStats /\ cycleSummaries = 0))
    /\ (pc = "LoopTest" => cycleSummaries = (IF RawTruthy(RAW) THEN 1 ELSE 0))
    /\ (pc \in {"Info", "Summary"} => cycleSummaries = 0)
    /\ (pc \in {"Summary", "LoopTest"}
            => STATS = [ZeroStats EXCEPT
                            !.Update = AcceptedBefore(sinkLog, Len(sinkLog) + 1)])
    /\ summaries <= cycles

C17_Witness ==
    /\ pc = "LoopTest" /\ cycles = 2 /\ summaries = 2 /\ cycleSummaries = 1
    /\ STATS.Update = 1 /\ Len(RAW.results) = 2

\* the entries of es were all made from matching records of the document of the
\* current cycle, each record at most once and in document order
FromThisCycle(es) ==
    /\ \A i \in 1..Len(es) :
            /\ es[i].subject \in 1..Len(RAW.results)
            /\ RAW.results[es[i].subject] = "Lynda"
    /\ \A i, j \in 1..Len(es) : i < j => es[i].subject < es[j].subject

\* C18: the buffer is empty at the start of every cycle, so an ingest call never
\* carries an entry buffered during an earlier cycle: the buffer and every ingest
\* of a cycle hold entries of that cycle's document only.
C18_BufferScopedToCycle ==
    /\ (pc \in {"Run", "Fetch", "Dispatch"} => entry_batch = <<>>)
    /\ (pc \in {"Info", "Summary", "LoopTest"} =>
            /\ FromThisCycle(entry_batch)
            /\ \A i \in Ingests(sinkLog) : FromThisCycle(sinkLog[i].data))

C18_Witness ==
    /\ pc = "Summary" /\ cycles = 2 /\ summaries = 1 /\ has_entry_batch
    /\ Len(sinkLog) = 1 /\ sinkLog[1].op = "ingest" /\ sinkLog[1].ok
    /\ RAW.results = <<"Other", "Lynda">> /\ sinkLog[1].data = <<Entry(2)>>
    /\ entry_batch = <<>>

\* C19 as first stated: the last_run that smart_sleep works with is never a time
\* taken before the work of the cycle just completed: it is not earlier than the
\* time read at the end of that work.
C19_Original ==
    (pc \in {"Sleep", "Check"} /\ cycleSummaries = 1) => last_run >= end

\* C19: in daemon mode smart_sleep receives its last_run only after the cycle has
\* completed, when the loop decides to sleep, and the value it receives is the
\* start time of that cycle, read before the fetch and ingest work: never later
\* than the time read at the end of that work.
C19_LastRunIsCycleStart ==
    /\ (pc \in {"Sleep", "Check"} =>
            /\ last_run = start
            /\ (cycleSummaries = 1 => last_run <= end))
    /\ (pc \in {"Setup", "Run", "Fetch", "Dispatch", "Info", "Summary", "LoopTest"}
            => last_run = 0)

C19_Witness ==
    /\ pc = "Check" /\ cycles = 2 /\ cycleSummaries = 1
    /\ last_run = start /\ start < end /\ end < now

\* C20: a call of Warehouse_Entry with no entry while the buffer is empty, whatever
\* the batch value (0 and 1 included) and whether or not the buffer exists yet,
\* makes no sink call, raises nothing and leaves the buffer empty and every counter
\* as it was; hence no ingest call ever carries an empty list.
C20_EmptyFlushIsNoOp ==
    /\ (hLast.called /\ hLast.entry.isNone /\ hLast.before = <<>>) =>
            /\ Len(sinkLog) = hLast.logBefore
            /\ entry_batch = <<>>
            /\ STATS = hLast.statsBefore
            /\ ~hLast.raised
    /\ \A i \in Ingests(sinkLog) : sinkLog[i].data # <<>>

C20_Witness ==
    /\ hLast.called /\ hLast.entry.isNone /\ hLast.before = <<>> /\ hLast.batch = 0
    /\ hLast.hadBefore /\ hLast.logBefore = 2 /\ Len(sinkLog) = 2
    /\ STATS.Update >= 1 /\ entry_batch = <<>>

\* the entries the sink has accepted by bulk ingest, in the order it accepted them
AcceptedEntries(log) ==
    LET F[k \in 0..Len(log)] ==
            IF k = 0 THEN <<>>
            ELSE F[k-1] \o (IF log[k].op = "ingest" /\ log[k].ok THEN log[k].data ELSE <<>>)
    IN F[Len(log)]

\* C21: after any sequence of Warehouse_Entry calls none of which was a single
\* update (any batch value, each ingest accepted or rejected), the number of
\* entries submitted equals STATS['Update'] plus the length of the buffer, and the
\* submitted entries are exactly the entries accepted by the sink followed by the
\* entries in the buffer, each of them once.
C21_Conservation ==
    (Updates(sinkLog) = {}) =>
        /\ hSub = STATS.Update + Len(entry_batch)
        /\ STATS.Update = Len(AcceptedEntries(sinkLog))
        /\ AcceptedEntries(sinkLog) \o entry_batch = [i \in 1..hSub |-> Entry(i)]

C21_Witness ==
    /\ Updates(sinkLog) = {} /\ hSub = 4
    /\ STATS.Update = 2 /\ Len(entry_batch) = 2
    /\ \E i \in Ingests(sinkLog) : ~sinkLog[i].ok
    /\ \E i \in Ingests(sinkLog) : sinkLog[i].ok /\ Len(sinkLog[i].data) = 2

====
